---- MODULE Spec2Model ----
(***************************************************************************)
(* Model of ps9100.py: a raw TCP (port 9100) print server that saves each  *)
(* job to a file under JOBS_FOLDER and relays it to a USB printer.         *)
(*                                                                         *)
(* The environment (file system, network peer, USB library, the operator's *)
(* Ctrl+C) is nondeterministic: every library call that can raise is       *)
(* modelled with both its normal return and its exception.  Exception      *)
(* propagation follows the try/except/finally/with structure of the code.  *)
(* KeyboardInterrupt is delivered at the blocking calls (accept, recv, the *)
(* file write, the USB calls).                                             *)
(***************************************************************************)
EXTENDS Integers, Sequences, FiniteSets

\* ---------------------------------------------------------------- bounds
MaxJobs == 2          \* connections accepted in one run
MaxLen  == 2          \* bytes a client sends over one connection

\* datetime.now().strftime("%Y%m%d_%H%M%S"): two jobs may fall in the same
\* second or in different ones (the wall clock may also step back).
Timestamps == {"20250101_120000", "20250101_120001"}
\* addr[0] of the clients, as the characters of the dotted address.  The
\* address only feeds the filename; one client sending every job is the case
\* in which the address does not tell two filenames apart.
ClientIPs  == { <<"10", ".", "0", ".", "0", ".", "7">> }
NoFile     == <<>>

\* ------------------------------------------------------ program constants
buffer_size == 4096

VARIABLES
  pc,           \* position of the single control thread
  isWin32,      \* sys.platform == "win32"
  dirExists,    \* os.path.exists(JOBS_FOLDER)
  sock,         \* listening socket s: "none" | "open" | "listening" | "closed"
  exitStatus,   \* "running" | "0" | "1"
  stopCause,    \* what ended start_print_server
  stoppedAt,    \* pc at which the accept loop was left
  job_counter,  \* job_counter (line 125/129)
  addr,         \* addr[0] of the current connection
  openConns,    \* accepted connections not yet closed
  sent,         \* bytes the peer sends over the current connection
  pending,      \* bytes of sent not yet returned by recv
  full_data,    \* full_data (line 134/140)
  lastRead,     \* "none" | "eof" | "error" for the current connection
  files,        \* the jobs folder: filename -> contents
  created,      \* filenames of the job files created, in creation order
  expect,       \* filename -> bytes sent, for jobs whose write succeeded
  curName,      \* filename built for the current job (NoFile if none)
  writeResult,  \* "none" | "ok" | "fail" for the current job
  handles,      \* USB device handles held (found, not yet disposed)
  driverActive, \* a kernel driver is bound to interface 0
  found,        \* this relay attempt found the device
  detached,     \* this relay attempt detached the kernel driver
  attachTried,  \* this relay attempt called attach_kernel_driver
  relayResult,  \* "none" | "True" | "False" | "raised"
  relayExit,    \* pending exit of the try block of lines 74-82
  relayCalls,   \* calls of print_raw_to_usb for the current connection
  relayArg,     \* the data argument of print_raw_to_usb
  steps,        \* executions of each relay step for the current connection
  failedSteps   \* relay steps of the current connection that failed

netVars   == <<job_counter, addr, openConns, sent, pending, full_data, lastRead>>
fileVars  == <<files, created, expect, curName, writeResult>>
usbVars   == <<handles, driverActive, found, detached, attachTried, relayResult,
               relayExit, relayCalls, relayArg, steps, failedSteps>>
procVars  == <<isWin32, dirExists, sock, exitStatus, stopCause, stoppedAt>>
envVars   == <<isWin32, dirExists, sock, exitStatus>>
jobVars   == <<job_counter, addr, sent, pending, full_data, lastRead>>
vars      == <<pc, procVars, netVars, fileVars, usbVars>>

RelaySteps == {"find", "is_kernel_driver_active", "detach_kernel_driver",
               "set_configuration", "reset", "get_active_configuration",
               "find_descriptor", "write", "attach_kernel_driver"}
RelayPcs   == {"usb_find", "usb_query", "usb_detach", "usb_setconf", "usb_reset",
               "usb_getcfg", "usb_findep", "usb_write", "usb_dispose",
               "usb_query2", "usb_attach"}
ConnPcs    == {"recv", "save"} \cup RelayPcs
StopPcs    == {"finally", "exited"}

\* ---------------------------------------------------------------- helpers
Min(a, b) == IF a < b THEN a ELSE b

\* The byte streams a client may send over connection number n: every length
\* up to MaxLen.  The server never inspects the value of a byte (only whether
\* a recv returned any), so each byte is tagged with its connection and its
\* position: all bytes sent in one run are distinct, and any byte added,
\* dropped, duplicated, reordered or taken from another job shows.
Payloads(n) == { [i \in 1..k |-> 16 * n + i] : k \in 0..MaxLen }

\* What a write that raised may have left in the file.
StrictPrefixes(s) == { SubSeq(s, 1, k) : k \in 0..(Len(s) - 1) }

\* addr[0].replace('.', '-')
Sanitize(ip) == [i \in 1..Len(ip) |-> IF ip[i] = "." THEN "-" ELSE ip[i]]

\* Each operator below that models a line of the code is preceded, where a
\* property depends on it, by a faulty variant of that line; the properties
\* must tell the two apart.

\* f"job_{timestamp}_{addr[0].replace('.', '-')}_{job_counter}.prn" in JOBS_FOLDER
FilenameNoCounter(ts, ip, n) == <<"jobs", "job", ts, Sanitize(ip), 0, "prn">>
Filename(ts, ip, n) == <<"jobs", "job", ts, Sanitize(ip), n, "prn">>

\* full_data += data
AccumulateLastOnly(buf, data) == data
Accumulate(buf, data) == buf \o data

\* if full_data:
NonEmpty(buf) == Len(buf) > 0

\* with conn: (socket.__exit__ closes the connection)
WithExit(conns, c) == conns \ {c}

\* usb.util.dispose_resources(dev)
DisposeLeak(h) == h
Dispose(h) == IF h > 0 THEN h - 1 ELSE 0

\* s.close()
CloseSocketNoop(s) == s
CloseSocket(s) == "closed"

\* the except clause of lines 51-54 returns False
AfterConfigErrorFallThrough == "usb_getcfg"
AfterConfigError == "return"

Bump(f, s) == [f EXCEPT ![s] = @ + 1]
NoSteps    == [s \in RelaySteps |-> 0]

\* ------------------------------------------------------------------- Init
Init ==
  /\ pc = "start"
  /\ isWin32 \in BOOLEAN
  /\ dirExists \in BOOLEAN
  /\ sock = "none"
  /\ exitStatus = "running"
  /\ stopCause = "none"
  /\ stoppedAt = "none"
  /\ job_counter = 0
  /\ addr = <<>>
  /\ openConns = {}
  /\ sent = <<>>
  /\ pending = <<>>
  /\ full_data = <<>>
  /\ lastRead = "none"
  /\ files = [f \in {} |-> <<>>]
  /\ created = <<>>
  /\ expect = [f \in {} |-> <<>>]
  /\ curName = NoFile
  /\ writeResult = "none"
  /\ handles = 0
  /\ driverActive \in BOOLEAN
  /\ found = FALSE
  /\ detached = FALSE
  /\ attachTried = FALSE
  /\ relayResult = "none"
  /\ relayExit = "none"
  /\ relayCalls = 0
  /\ relayArg = <<>>
  /\ steps = NoSteps
  /\ failedSteps = {}

\* ------------------------------------------- exception propagation, returns
\* An exception leaves the accept loop: `with conn` (line 133) closes the
\* connection if one is being serviced, the matching except clause
\* (lines 161-168) reports it, and control reaches `finally` (line 169).
Raise(cause) ==
  /\ pc' = "finally"
  /\ stopCause' = cause
  /\ stoppedAt' = pc
  /\ openConns' = IF pc \in ConnPcs THEN WithExit(openConns, job_counter)
                                    ELSE openConns

\* The body of `with conn` ends: the connection is closed and the loop of
\* line 127 goes back to s.accept().
EndOfJob ==
  /\ pc' = "accept"
  /\ openConns' = WithExit(openConns, job_counter)
  /\ UNCHANGED <<stopCause, stoppedAt>>

\* print_raw_to_usb returns r to line 157, whose result is discarded.
Return(r) ==
  /\ relayResult' = r
  /\ EndOfJob

\* ------------------------------------------------------------ startup
\* lines 105-112
makedirs ==
  /\ pc = "start"
  /\ \/ /\ dirExists
        /\ pc' = "socket"
        /\ UNCHANGED <<dirExists, exitStatus, stopCause, stoppedAt>>
     \/ /\ ~dirExists
        /\ dirExists' = TRUE
        /\ pc' = "socket"
        /\ UNCHANGED <<exitStatus, stopCause, stoppedAt>>
     \/ /\ ~dirExists                      \* OSError: sys.exit(1)
        /\ pc' = "exited"
        /\ exitStatus' = "1"
        /\ stopCause' = "makedirs"
        /\ stoppedAt' = pc
        /\ UNCHANGED dirExists
  /\ UNCHANGED <<isWin32, sock, netVars, fileVars, usbVars>>

\* lines 114-116
create_socket ==
  /\ pc = "socket"
  /\ sock' = "open"
  /\ pc' = "bind"
  /\ UNCHANGED <<isWin32, dirExists, exitStatus, stopCause, stoppedAt,
                 netVars, fileVars, usbVars>>

\* lines 119-125
bind_listen ==
  /\ pc = "bind"
  /\ \/ /\ sock' = "listening"
        /\ job_counter' = 0
        /\ pc' = "accept"
        /\ UNCHANGED <<stopCause, stoppedAt, openConns>>
     \/ /\ Raise("bind")                   \* OSError, e.g. EADDRINUSE
        /\ UNCHANGED <<sock, job_counter>>
  /\ UNCHANGED <<isWin32, dirExists, exitStatus, addr, sent, pending,
                 full_data, lastRead, fileVars, usbVars>>

\* ------------------------------------------------------------ accept loop
\* lines 128-134: accept, count the job, enter `with conn`, full_data = b""
accept ==
  /\ pc = "accept"
  /\ job_counter < MaxJobs
  /\ \E ip \in ClientIPs, B \in Payloads(job_counter + 1) :
       /\ addr' = ip
       /\ sent' = B
       /\ pending' = B
  /\ job_counter' = job_counter + 1
  /\ openConns' = openConns \cup {job_counter + 1}
  /\ full_data' = <<>>
  /\ lastRead' = "none"
  /\ curName' = NoFile
  /\ writeResult' = "none"
  /\ found' = FALSE
  /\ detached' = FALSE
  /\ attachTried' = FALSE
  /\ relayResult' = "none"
  /\ relayExit' = "none"
  /\ relayCalls' = 0
  /\ relayArg' = <<>>
  /\ steps' = NoSteps
  /\ failedSteps' = {}
  /\ pc' = "recv"
  /\ UNCHANGED <<procVars, files, created, expect, handles, driverActive>>

\* line 128: s.accept() raises OSError
accept_error ==
  /\ pc = "accept"
  /\ Raise("accept")
  /\ UNCHANGED <<isWin32, dirExists, sock, exitStatus, job_counter, addr, sent,
                 pending, full_data, lastRead, fileVars, usbVars>>

\* lines 137-140: one recv that returns data
recv_data ==
  /\ pc = "recv"
  /\ Len(pending) > 0
  /\ \E n \in 1..Min(Len(pending), buffer_size) :
       /\ full_data' = Accumulate(full_data, SubSeq(pending, 1, n))
       /\ pending' = SubSeq(pending, n + 1, Len(pending))
  /\ UNCHANGED <<pc, procVars, job_counter, addr, openConns, sent, lastRead,
                 fileVars, usbVars>>

\* lines 137-144, 158-159: recv returns b"" (peer closed), then `if full_data`
recv_eof ==
  /\ pc = "recv"
  /\ Len(pending) = 0
  /\ lastRead' = "eof"
  /\ IF NonEmpty(full_data)
       THEN /\ pc' = "save"
            /\ UNCHANGED <<openConns, stopCause, stoppedAt>>
       ELSE EndOfJob
  /\ UNCHANGED <<isWin32, dirExists, sock, exitStatus, job_counter, addr, sent,
                 pending, full_data, fileVars, usbVars>>

\* line 137: recv raises OSError (connection reset); caught at line 161
recv_error ==
  /\ pc = "recv"
  /\ lastRead' = "error"
  /\ Raise("recv")
  /\ UNCHANGED <<isWin32, dirExists, sock, exitStatus, job_counter, addr, sent,
                 pending, full_data, fileVars, usbVars>>

\* lines 146-154: build the filename, open(filename, "wb"), f.write(full_data)
save_job ==
  /\ pc = "save"
  /\ \E ts \in Timestamps :
       LET filename == Filename(ts, addr, job_counter)
           Put(c) == [f \in DOMAIN files \cup {filename} |->
                         IF f = filename THEN c ELSE files[f]]
       IN /\ curName' = filename
          /\ \/ /\ files' = Put(full_data)             \* written
                /\ created' = Append(created, filename)
                /\ expect' = [f \in DOMAIN expect \cup {filename} |->
                                IF f = filename THEN sent ELSE expect[f]]
                /\ writeResult' = "ok"
             \/ /\ writeResult' = "fail"               \* open raises IOError
                /\ UNCHANGED <<files, created, expect>>
             \/ /\ \E part \in StrictPrefixes(full_data) :   \* write raises IOError
                     files' = Put(part)
                /\ created' = Append(created, filename)
                /\ writeResult' = "fail"
                /\ UNCHANGED expect
  /\ pc' = "usb_find"
  /\ UNCHANGED <<procVars, netVars, usbVars>>

\* ------------------------------------------------------- print_raw_to_usb
\* A step of print_raw_to_usb raises out of the function (no enclosing try).
RaiseFrom(step) ==
  /\ failedSteps' = failedSteps \cup {step}
  /\ relayResult' = "raised"
  /\ Raise("usb")

\* A step fails inside a try whose except clause disposes and returns False.
FailFrom(step) ==
  /\ failedSteps' = failedSteps \cup {step}
  /\ handles' = Dispose(handles)
  /\ Return("False")

Continue(next) ==
  /\ pc' = next
  /\ UNCHANGED <<stopCause, stoppedAt, openConns, relayResult>>

\* line 157 (the call) and lines 26-32: usb.core.find
usb_find ==
  /\ pc = "usb_find"
  /\ relayCalls' = relayCalls + 1
  /\ relayArg' = full_data
  /\ steps' = Bump(steps, "find")
  /\ \/ /\ found' = TRUE                       \* device present
        /\ handles' = handles + 1
        /\ Continue(IF isWin32 THEN "usb_setconf" ELSE "usb_query")
        /\ UNCHANGED failedSteps
     \/ /\ failedSteps' = failedSteps \cup {"find"}   \* dev is None
        /\ Return("False")
        /\ UNCHANGED <<found, handles>>
  /\ UNCHANGED <<envVars, jobVars, fileVars, driverActive, detached,
                 attachTried, relayExit>>

\* line 36: dev.is_kernel_driver_active(0), not inside any try
usb_query ==
  /\ pc = "usb_query"
  /\ steps' = Bump(steps, "is_kernel_driver_active")
  /\ \/ /\ Continue(IF driverActive THEN "usb_detach" ELSE "usb_setconf")
        /\ UNCHANGED failedSteps
     \/ RaiseFrom("is_kernel_driver_active")   \* USBError, e.g. access denied
  /\ UNCHANGED <<envVars, jobVars, fileVars, handles, driverActive, found,
                 detached, attachTried, relayExit, relayCalls, relayArg>>

\* lines 37-44: dev.detach_kernel_driver(0)
usb_detach ==
  /\ pc = "usb_detach"
  /\ steps' = Bump(steps, "detach_kernel_driver")
  /\ \/ /\ driverActive' = FALSE
        /\ detached' = TRUE
        /\ Continue("usb_setconf")
        /\ UNCHANGED <<failedSteps, handles>>
     \/ /\ FailFrom("detach_kernel_driver")
        /\ UNCHANGED <<driverActive, detached>>
  /\ UNCHANGED <<envVars, jobVars, fileVars, found, attachTried, relayExit,
                 relayCalls, relayArg>>

\* lines 48-49, 51-54: dev.set_configuration()
usb_setconf ==
  /\ pc = "usb_setconf"
  /\ steps' = Bump(steps, "set_configuration")
  /\ \/ /\ Continue("usb_reset")
        /\ UNCHANGED <<failedSteps, handles>>
     \/ IF AfterConfigError = "return"
          THEN FailFrom("set_configuration")
          ELSE /\ failedSteps' = failedSteps \cup {"set_configuration"}
               /\ Continue(AfterConfigError)
               /\ UNCHANGED handles
  /\ UNCHANGED <<envVars, jobVars, fileVars, driverActive, found, detached,
                 attachTried, relayExit, relayCalls, relayArg>>

\* lines 50-54: dev.reset()
usb_reset ==
  /\ pc = "usb_reset"
  /\ steps' = Bump(steps, "reset")
  /\ \/ /\ Continue("usb_getcfg")
        /\ UNCHANGED <<failedSteps, handles>>
     \/ IF AfterConfigError = "return"
          THEN FailFrom("reset")
          ELSE /\ failedSteps' = failedSteps \cup {"reset"}
               /\ Continue(AfterConfigError)
               /\ UNCHANGED handles
  /\ UNCHANGED <<envVars, jobVars, fileVars, driverActive, found, detached,
                 attachTried, relayExit, relayCalls, relayArg>>

\* lines 58-59: dev.get_active_configuration(), cfg[(0,0)], not inside any try
usb_getcfg ==
  /\ pc = "usb_getcfg"
  /\ steps' = Bump(steps, "get_active_configuration")
  /\ \/ /\ Continue("usb_findep")
        /\ UNCHANGED failedSteps
     \/ RaiseFrom("get_active_configuration")  \* USBError or IndexError
  /\ UNCHANGED <<envVars, jobVars, fileVars, handles, driverActive, found,
                 detached, attachTried, relayExit, relayCalls, relayArg>>

\* lines 60-71: usb.util.find_descriptor for the OUT endpoint
usb_findep ==
  /\ pc = "usb_findep"
  /\ steps' = Bump(steps, "find_descriptor")
  /\ \/ /\ Continue("usb_write")
        /\ UNCHANGED <<failedSteps, handles>>
     \/ FailFrom("find_descriptor")            \* ep is None
  /\ UNCHANGED <<envVars, jobVars, fileVars, driverActive, found, detached,
                 attachTried, relayExit, relayCalls, relayArg>>

\* lines 74-82: ep.write(data, 1000) inside try ... finally
usb_write ==
  /\ pc = "usb_write"
  /\ steps' = Bump(steps, "write")
  /\ \/ /\ relayExit' = "True"
        /\ UNCHANGED failedSteps
     \/ /\ relayExit' = "False"                \* USBError: error or timeout
        /\ failedSteps' = failedSteps \cup {"write"}
  /\ Continue("usb_dispose")
  /\ UNCHANGED <<envVars, jobVars, fileVars, handles, driverActive, found,
                 detached, attachTried, relayCalls, relayArg>>

\* The finally clause of lines 83-93 is over: the pending return value or
\* exception of the try block takes effect.
Finish ==
  IF relayExit = "KeyboardInterrupt"
    THEN /\ relayResult' = "raised"
         /\ Raise("interrupt")
    ELSE Return(relayExit)

\* lines 83-86: usb.util.dispose_resources(dev) in the finally clause
usb_dispose ==
  /\ pc = "usb_dispose"
  /\ handles' = Dispose(handles)
  /\ IF isWin32 THEN Finish ELSE Continue("usb_query2")
  /\ UNCHANGED <<envVars, jobVars, fileVars, driverActive, found, detached,
                 attachTried, relayExit, relayCalls, relayArg, steps,
                 failedSteps>>

\* line 88: dev.is_kernel_driver_active(0) in the finally clause, outside try
usb_query2 ==
  /\ pc = "usb_query2"
  /\ steps' = Bump(steps, "is_kernel_driver_active")
  /\ \/ /\ IF driverActive THEN Finish ELSE Continue("usb_attach")
        /\ UNCHANGED failedSteps
     \/ RaiseFrom("is_kernel_driver_active")
  /\ UNCHANGED <<envVars, jobVars, fileVars, handles, driverActive, found,
                 detached, attachTried, relayExit, relayCalls, relayArg>>

\* lines 89-93: dev.attach_kernel_driver(0)
usb_attach ==
  /\ pc = "usb_attach"
  /\ steps' = Bump(steps, "attach_kernel_driver")
  /\ attachTried' = TRUE
  /\ \/ /\ driverActive' = TRUE
        /\ UNCHANGED failedSteps
     \/ /\ failedSteps' = failedSteps \cup {"attach_kernel_driver"}
        /\ UNCHANGED driverActive               \* USBError, reported only
  /\ Finish
  /\ UNCHANGED <<envVars, jobVars, fileVars, handles, found, detached,
                 relayExit, relayCalls, relayArg>>

\* ------------------------------------------------------------- shutdown
\* Ctrl+C: KeyboardInterrupt raised in a blocking call of the accept loop.
\* Inside the try of lines 74-82 the finally clause runs first.
interrupt ==
  /\ pc \in {"accept"} \cup ConnPcs
  /\ IF pc = "usb_write"
       THEN /\ relayExit' = "KeyboardInterrupt"
            /\ pc' = "usb_dispose"
            /\ UNCHANGED <<stopCause, stoppedAt, openConns, relayResult>>
       ELSE /\ Raise("interrupt")
            /\ relayResult' = IF relayCalls > 0 /\ pc \in RelayPcs
                                THEN "raised" ELSE relayResult
            /\ UNCHANGED relayExit
  /\ UNCHANGED <<envVars, jobVars, fileVars, handles, driverActive, found,
                 detached, attachTried, relayCalls, relayArg, steps,
                 failedSteps>>

\* lines 169-171 and 197: finally: s.close(); start_print_server returns to
\* the last statement of the script, which ends with status 0
finally ==
  /\ pc = "finally"
  /\ sock' = CloseSocket(sock)
  /\ exitStatus' = "0"
  /\ pc' = "exited"
  /\ UNCHANGED <<isWin32, dirExists, stopCause, stoppedAt, netVars, fileVars,
                 usbVars>>

Next ==
  \/ makedirs \/ create_socket \/ bind_listen
  \/ accept \/ accept_error \/ recv_data \/ recv_eof \/ recv_error \/ save_job
  \/ usb_find \/ usb_query \/ usb_detach \/ usb_setconf \/ usb_reset
  \/ usb_getcfg \/ usb_findep \/ usb_write \/ usb_dispose \/ usb_query2
  \/ usb_attach
  \/ interrupt \/ finally

Spec == Init /\ [][Next]_vars

TypeOK ==
  /\ pc \in {"start", "socket", "bind", "accept"} \cup ConnPcs \cup StopPcs
  /\ sock \in {"none", "open", "listening", "closed"}
  /\ exitStatus \in {"running", "0", "1"}
  /\ job_counter \in 0..MaxJobs
  /\ handles \in 0..MaxJobs
  /\ relayCalls \in 0..1

\* ------------------------------------------------------------ properties
\* The current connection was read to EOF and its file-write step is over
\* (the thread is in the relay, back at accept, or was stopped there).
PersistStepOver ==
  /\ lastRead = "eof"
  /\ \/ pc \in RelayPcs \cup {"accept"}
     \/ pc \in StopPcs /\ stoppedAt \in RelayPcs \cup {"accept"}

\* No file of the jobs folder carries the counter of the current connection.
NoFileForCurrentJob == \A f \in DOMAIN files : f[5] # job_counter

\* C1 (as claimed): once a connection was read to EOF and its write step is
\* over, a non-empty B has a job file whose contents are exactly B, whatever
\* the relay does; an empty B has no file.
C1_FileEqualsSent ==
  PersistStepOver =>
    IF sent # <<>>
      THEN curName \in DOMAIN files /\ files[curName] = sent
      ELSE NoFileForCurrentJob

\* C1 (amended): the same, for the jobs whose open/write did not raise: the
\* file of every such job of the run holds exactly the bytes sent, during and
\* after the relay and the later jobs; an empty B has no file.
C1_FileEqualsSentIfWritten ==
  /\ \A f \in DOMAIN expect : f \in DOMAIN files /\ files[f] = expect[f]
  /\ (PersistStepOver /\ sent # <<>> /\ writeResult = "ok") =>
        (curName \in DOMAIN files /\ files[curName] = sent)
  /\ (lastRead = "eof" /\ sent = <<>>) =>
        (NoFileForCurrentJob /\ writeResult = "none")

C1_Witness ==
  /\ pc = "accept"
  /\ writeResult = "ok"
  /\ Len(sent) >= 2
  /\ files[curName] = sent
  /\ relayResult = "False"
  /\ Len(created) = 2

\* C2 (as claimed): after a recv error the partial buffer is dropped (no
\* file, no relay) and the server is still in its accept loop.
C2_ReadErrorContinues ==
  lastRead = "error" =>
    /\ writeResult = "none"
    /\ relayCalls = 0
    /\ pc \notin StopPcs

\* C3 (as claimed): a failure to create the jobs folder or to bind the port
\* ends the process with a non-zero status, without any connection accepted.
C3_FatalStartupExitsNonZero ==
  (pc = "exited" /\ stopCause \in {"makedirs", "bind"}) =>
    /\ exitStatus # "0"
    /\ job_counter = 0

\* C4 (as claimed): no failing step of the relay stops the server.
C4_RelayFailureAbsorbed ==
  failedSteps # {} => stopCause # "usb"

\* C5 (as claimed): when a relay attempt that found the device returns, the
\* device has been released, and if the attempt detached the kernel driver
\* it has attempted to reattach it.
C5_ReleasedAndReattached ==
  (found /\ relayResult \in {"True", "False"}) =>
    /\ handles = 0
    /\ detached => attachTried

\* C6: at most one connection is open and at most one device handle is
\* held; when the server is about to accept, the previous connection is
\* closed and its device handle released.
C6_OneJobOneHandle ==
  /\ Cardinality(openConns) <= 1
  /\ handles <= 1
  /\ openConns \subseteq {job_counter}
  /\ pc = "accept" => (openConns = {} /\ handles = 0)
  /\ handles = 1 => pc \in RelayPcs \cup StopPcs

C6_Witness ==
  /\ pc = "usb_write"
  /\ job_counter = 2
  /\ openConns = {2}
  /\ handles = 1

\* C7: the job files created in one run have pairwise distinct names; the
\* name carries the counter, which grows by one with every accepted
\* connection and never changes otherwise.
C7_UniqueFilenames ==
  /\ [](\A i, j \in 1..Len(created) : i # j => created[i] # created[j])
  /\ [](curName # NoFile => curName[5] = job_counter)
  /\ [][IF pc = "accept" /\ pc' = "recv"
          THEN job_counter' = job_counter + 1
          ELSE job_counter' = job_counter]_vars

C7_Witness ==
  /\ Len(created) = 2
  /\ created[1][3] = created[2][3]
  /\ created[1][4] = created[2][4]

\* C8 (as claimed): a failed file write is not propagated: the relay is
\* called with the full buffer and the server is not stopped by an error of
\* that job.
C8_WriteFailureAbsorbed ==
  writeResult = "fail" =>
    /\ pc \in (RelayPcs \ {"usb_find"}) \cup {"accept"} =>
          (relayCalls = 1 /\ relayArg = sent)
    /\ stopCause # "usb"

\* C9: once the accept loop is left (interrupt, bind failure, any error) no
\* connection is open and none is accepted any more, and the listening
\* socket is closed when the server function has returned.
C9_SocketClosedOnExit ==
  /\ [](pc \in StopPcs /\ stopCause # "makedirs" => openConns = {})
  /\ [](pc = "exited" /\ stopCause # "makedirs" => sock = "closed")
  /\ [][(pc \in StopPcs) =>
          (pc' \in StopPcs /\ job_counter' = job_counter /\ openConns' = {})]_vars

C9_Witness ==
  /\ pc = "exited"
  /\ stopCause = "interrupt"
  /\ stoppedAt \in RelayPcs \ {"usb_find"}
  /\ sock = "closed"
  /\ openConns = {}

\* C10: a connection read to EOF gets one relay call if it delivered bytes
\* and none if it did not; no relay step runs twice for it, and the endpoint
\* write is only reached when no earlier step has failed.
C10_OneRelayAttempt ==
  /\ [](relayCalls <= 1)
  /\ []((lastRead = "eof" /\ sent = <<>>) =>
          (relayCalls = 0 /\ writeResult = "none"))
  /\ []((pc = "accept" /\ lastRead = "eof" /\ sent # <<>>) => relayCalls = 1)
  /\ [](\A s \in {"find", "detach_kernel_driver", "set_configuration", "reset",
                  "find_descriptor", "write"} : steps[s] <= 1)
  /\ [][steps'["write"] > steps["write"] => failedSteps = {}]_vars

C10_Witness ==
  /\ pc = "accept"
  /\ relayCalls = 1
  /\ "set_configuration" \in failedSteps
  /\ steps["write"] = 0
  /\ steps["set_configuration"] = 1
====
